---- MODULE Spec2Model ----
(***************************************************************************)
(* Follow-up tracker: the upload pipeline (New folder/followup_core.py,   *)
(* process_excel) and the database app (app_db.py, process_df).            *)
(*   Spec, SpecSla  the stages of a run on one task row;                   *)
(*   SpecTable      a run on a whole table, up to the by-status pivot;     *)
(*   SpecApp        the database app's mutations, each with its backup.    *)
(*                                                                         *)
(* Cell values are records [k, s, n]: k is the Python type of the cell,    *)
(* s the characters of a str, n the day number of a date or the value of   *)
(* a number.  A str is a sequence of one-character strings, so that        *)
(* str.strip() and str.lower() are computed, not assumed.                  *)
(***************************************************************************)
EXTENDS Integers, Sequences, FiniteSets, TLC

\* ---------------------------------------------------------------- bounds
\* Day numbers run over 0..MaxDay; the due-soon window over 1..MaxWindow.
MaxDay == 4
MaxWindow == 2
\* Day numbers of the rows drawn for the Approval Resolver.
MaxApprDay == 2
\* Rows of the change log.
MaxLog == 1
\* SLA target-days run over 0..MaxTarget, created-on days over 0..MaxCreated.
MaxTarget == 2
MaxCreated == 1
\* Rows of the SLA policy table.
MaxPolicies == 1
\* Rows of a task table whose pivot is built.
MaxTasks == 2
\* The database app: task ids run over 1..MaxTaskId; rows of the owners table.
MaxTaskId == 2
MaxOwners == 1

\* ---------------------------------------------------------------- values
None == [k |-> "None", s |-> <<>>, n |-> 0]
NaN == [k |-> "NaN", s |-> <<>>, n |-> 0]
Str(chars) == [k |-> "str", s |-> chars, n |-> 0]
\* A str holding the ISO text of day d ("2024-01-10"); its characters are not needed.
IsoStr(d) == [k |-> "iso", s |-> <<>>, n |-> d]
\* A datetime.date object.
Date(d) == [k |-> "date", s |-> <<>>, n |-> d]
\* A Python int.
Num(i) == [k |-> "num", s |-> <<>>, n |-> i]

\* isinstance(v, str)
IsStr(v) == v.k \in {"str", "iso"}
\* pd.isna(v)
isna(v) == v.k \in {"None", "NaN"}
\* bool(v): None, "" and 0 are falsy; float('nan') and every date are truthy.
Truthy(v) ==
  CASE v.k = "None" -> FALSE
    [] v.k = "str" -> v.s # <<>>
    [] v.k = "num" -> v.n # 0
    [] OTHER -> TRUE

\* ---------------------------------------------------------------- strings
Whitespace == {" ", "\t"}
UpperChars == <<"A", "B", "C", "D", "E", "F", "G", "H", "I", "J", "K", "L", "M",
                "N", "O", "P", "Q", "R", "S", "T", "U", "V", "W", "X", "Y", "Z">>
LowerChars == <<"a", "b", "c", "d", "e", "f", "g", "h", "i", "j", "k", "l", "m",
                "n", "o", "p", "q", "r", "s", "t", "u", "v", "w", "x", "y", "z">>
Digits == <<"0", "1", "2", "3", "4", "5", "6", "7", "8", "9">>

LowerChar(c) ==
  IF \E i \in 1..Len(UpperChars) : UpperChars[i] = c
  THEN LowerChars[CHOOSE i \in 1..Len(UpperChars) : UpperChars[i] = c]
  ELSE c
\* str.lower()
lower(chars) == [i \in 1..Len(chars) |-> LowerChar(chars[i])]

RECURSIVE lstrip(_)
lstrip(chars) ==
  IF chars # <<>> /\ Head(chars) \in Whitespace THEN lstrip(Tail(chars)) ELSE chars
RECURSIVE rstrip(_)
rstrip(chars) ==
  IF chars # <<>> /\ chars[Len(chars)] \in Whitespace
  THEN rstrip(SubSeq(chars, 1, Len(chars) - 1))
  ELSE chars
\* str.strip()
strip(chars) == rstrip(lstrip(chars))

s_done == <<"d", "o", "n", "e">>
s_completed == <<"c", "o", "m", "p", "l", "e", "t", "e", "d">>
s_finished == <<"f", "i", "n", "i", "s", "h", "e", "d">>
s_under_progress == <<"u", "n", "d", "e", "r", " ", "p", "r", "o", "g", "r", "e", "s", "s">>
s_in_progress == <<"i", "n", " ", "p", "r", "o", "g", "r", "e", "s", "s">>
s_progress == <<"p", "r", "o", "g", "r", "e", "s", "s">>
s_not_done == <<"n", "o", "t", " ", "d", "o", "n", "e">>
s_todo == <<"t", "o", "d", "o">>
s_pending == <<"p", "e", "n", "d", "i", "n", "g">>
s_rescheduled == <<"r", "e", "s", "c", "h", "e", "d", "u", "l", "e", "d">>
s_deferred == <<"d", "e", "f", "e", "r", "r", "e", "d">>
s_blocked == <<"b", "l", "o", "c", "k", "e", "d">>
s_on_hold == <<"o", "n", " ", "h", "o", "l", "d">>
s_Done == <<"D", "o", "n", "e">>
s_Under_Progress == <<"U", "n", "d", "e", "r", " ", "P", "r", "o", "g", "r", "e", "s", "s">>
s_Not_Done == <<"N", "o", "t", " ", "D", "o", "n", "e">>
s_Rescheduled == <<"R", "e", "s", "c", "h", "e", "d", "u", "l", "e", "d">>
s_Blocked == <<"B", "l", "o", "c", "k", "e", "d">>
s_Overdue == <<"O", "v", "e", "r", "d", "u", "e">>
s_Due_Soon == <<"D", "u", "e", " ", "S", "o", "o", "n">>
s_approved == <<"a", "p", "p", "r", "o", "v", "e", "d">>
s_Approved == <<"A", "p", "p", "r", "o", "v", "e", "d">>
s_None == <<"N", "o", "n", "e">>
s_nan == <<"n", "a", "n">>

\* str(v)
str(v) ==
  CASE v.k = "str" -> v.s
    [] v.k = "None" -> s_None
    [] v.k = "NaN" -> s_nan
    [] v.k = "num" -> <<Digits[v.n + 1]>>
    [] OTHER -> <<"2", "0", "2", "4", "-", Digits[v.n + 1]>>

\* dict.get(key, default) on a dict given as its (key, value) pairs
dict_get(d, key, default) ==
  IF \E p \in d : p[1] = key THEN (CHOOSE p \in d : p[1] = key)[2] ELSE default

\* ------------------------------------------------- Status Canonicalizer
CANON_STATUS_swapped ==
  { <<s_done, s_Done>>, <<s_completed, s_Done>>, <<s_finished, s_Done>>,
    <<s_under_progress, s_Under_Progress>>, <<s_in_progress, s_Under_Progress>>,
    <<s_progress, s_Under_Progress>>,
    <<s_not_done, s_Not_Done>>, <<s_todo, s_Not_Done>>, <<s_pending, s_Not_Done>>,
    <<s_rescheduled, s_Rescheduled>>, <<s_deferred, s_Rescheduled>>,
    <<s_blocked, s_on_hold>>, <<s_on_hold, s_Blocked>> }

CANON_STATUS ==
  { <<s_done, s_Done>>, <<s_completed, s_Done>>, <<s_finished, s_Done>>,
    <<s_under_progress, s_Under_Progress>>, <<s_in_progress, s_Under_Progress>>,
    <<s_progress, s_Under_Progress>>,
    <<s_not_done, s_Not_Done>>, <<s_todo, s_Not_Done>>, <<s_pending, s_Not_Done>>,
    <<s_rescheduled, s_Rescheduled>>, <<s_deferred, s_Rescheduled>>,
    <<s_blocked, s_Blocked>>, <<s_on_hold, s_Blocked>> }

db_CANON_STATUS ==
  { <<s_done, s_Done>>, <<s_completed, s_Done>>, <<s_finished, s_Done>>,
    <<s_under_progress, s_Under_Progress>>, <<s_in_progress, s_Under_Progress>>,
    <<s_progress, s_Under_Progress>>,
    <<s_not_done, s_Not_Done>>, <<s_todo, s_Not_Done>>, <<s_pending, s_Not_Done>>,
    <<s_rescheduled, s_Rescheduled>>, <<s_deferred, s_Rescheduled>>,
    <<s_blocked, s_Blocked>>, <<s_on_hold, s_Blocked>> }

STATUS_ORDER ==
  <<s_Overdue, s_Due_Soon, s_Under_Progress, s_Not_Done, s_Rescheduled, s_Blocked, s_Done>>

\* followup_core.canon_status
core_canon_status(v) ==
  IF v.k = "None" \/ v.k = "NaN"
  THEN None
  ELSE LET t == lower(strip(str(v)))
       IN IF \E p \in CANON_STATUS : p[1] = t
          THEN Str(dict_get(CANON_STATUS, t, <<>>))
          ELSE IF IsStr(v) THEN v ELSE None

\* app_db.canon_status
db_canon_status(v) ==
  IF v.k = "None" \/ strip(str(v)) = <<>>
  THEN None
  ELSE LET t == lower(strip(str(v)))
       IN IF \E p \in db_CANON_STATUS : p[1] = t
          THEN Str(dict_get(db_CANON_STATUS, t, <<>>))
          ELSE v

\* ---------------------------------------------------------------- dates
\* pd.to_datetime(x, errors="coerce"): a date or an ISO text parses, other text is NaT.
to_datetime(v) == IF v.k \in {"date", "iso"} THEN Date(v.n) ELSE NaN

\* followup_core.to_date
core_to_date(v) ==
  IF isna(v) \/ strip(str(v)) = <<>>
  THEN None
  ELSE IF isna(to_datetime(v)) THEN None ELSE to_datetime(v)

\* app_db.to_date
db_to_date(v) ==
  IF v = None \/ v = Str(<<>>) \/ v = Str(s_None)
  THEN None
  ELSE IF isna(to_datetime(v)) THEN None ELSE to_datetime(v)

\* -------------------------------------------------------- Status Engine
s_empty == <<>>
\* (current or "")
or_empty(current) == IF Truthy(current) THEN current.s ELSE s_empty

\* compute_status_row without rule 1: a Done task goes through the date rules
core_compute_status_row_no_done_rule(row, today_, due_soon_days_) ==
  LET current == core_canon_status(row.Status)
      due == core_to_date(row.DueDate)
      start == core_to_date(row.StartDate)
      resched == core_to_date(row.RescheduledTo)
  IN IF Truthy(resched) /\ resched.n >= today_
     THEN Str(s_Rescheduled)
     ELSE IF Truthy(due) /\ due.n < today_
     THEN Str(s_Overdue)
     ELSE IF Truthy(due) /\ 0 <= due.n - today_ /\ due.n - today_ <= due_soon_days_
     THEN Str(s_Due_Soon)
     ELSE IF Truthy(current) /\ current # Str(s_Rescheduled)
     THEN current
     ELSE IF Truthy(start) /\ start.n <= today_
     THEN Str(s_Under_Progress)
     ELSE Str(s_Not_Done)

\* compute_status_row with the Overdue rule tried before the Rescheduled rule
core_compute_status_row_overdue_first(row, today_, due_soon_days_) ==
  LET current == core_canon_status(row.Status)
      due == core_to_date(row.DueDate)
      start == core_to_date(row.StartDate)
      resched == core_to_date(row.RescheduledTo)
  IN IF lower(strip(or_empty(current))) = s_done
     THEN Str(s_Done)
     ELSE IF Truthy(due) /\ due.n < today_
     THEN Str(s_Overdue)
     ELSE IF Truthy(resched) /\ resched.n >= today_
     THEN Str(s_Rescheduled)
     ELSE IF Truthy(due) /\ 0 <= due.n - today_ /\ due.n - today_ <= due_soon_days_
     THEN Str(s_Due_Soon)
     ELSE IF Truthy(current) /\ current # Str(s_Rescheduled)
     THEN current
     ELSE IF Truthy(start) /\ start.n <= today_
     THEN Str(s_Under_Progress)
     ELSE Str(s_Not_Done)

\* compute_status_row with rule 4 (the manual status) tried before the date rules
core_compute_status_row_manual_first(row, today_, due_soon_days_) ==
  LET current == core_canon_status(row.Status)
      due == core_to_date(row.DueDate)
      start == core_to_date(row.StartDate)
      resched == core_to_date(row.RescheduledTo)
  IN IF Truthy(current) /\ current # Str(s_Rescheduled)
     THEN current
     ELSE IF Truthy(resched) /\ resched.n >= today_
     THEN Str(s_Rescheduled)
     ELSE IF Truthy(due) /\ due.n < today_
     THEN Str(s_Overdue)
     ELSE IF Truthy(due) /\ 0 <= due.n - today_ /\ due.n - today_ <= due_soon_days_
     THEN Str(s_Due_Soon)
     ELSE IF Truthy(start) /\ start.n <= today_
     THEN Str(s_Under_Progress)
     ELSE Str(s_Not_Done)

\* followup_core.compute_status_row
core_compute_status_row(row, today_, due_soon_days_) ==
  LET current == core_canon_status(row.Status)
      due == core_to_date(row.DueDate)
      start == core_to_date(row.StartDate)
      resched == core_to_date(row.RescheduledTo)
  IN IF lower(strip(or_empty(current))) = s_done
     THEN Str(s_Done)
     ELSE IF Truthy(resched) /\ resched.n >= today_ /\ lower(or_empty(current)) # s_done
     THEN Str(s_Rescheduled)
     ELSE IF Truthy(due) /\ due.n < today_ /\ lower(or_empty(current)) # s_done
     THEN Str(s_Overdue)
     ELSE IF Truthy(due) /\ 0 <= due.n - today_ /\ due.n - today_ <= due_soon_days_
             /\ lower(or_empty(current)) # s_done
     THEN Str(s_Due_Soon)
     ELSE IF Truthy(current) /\ current # Str(s_Rescheduled)
     THEN current
     ELSE IF Truthy(start) /\ start.n <= today_
     THEN Str(s_Under_Progress)
     ELSE Str(s_Not_Done)

\* app_db.compute_status_row: the due-soon window is read from st.session_state,
\* not from the due_soon_days argument.
db_compute_status_row(row, today_, due_soon_days_, session) ==
  LET current == db_canon_status(row.Status)
      due == db_to_date(row.DueDate)
      start == db_to_date(row.StartDate)
      resched == db_to_date(row.RescheduledTo)
      window == dict_get(session, "due_soon_days", 3)
  IN IF lower(strip(or_empty(current))) = s_done
     THEN Str(s_Done)
     ELSE IF Truthy(resched) /\ resched.n >= today_ /\ lower(or_empty(current)) # s_done
     THEN Str(s_Rescheduled)
     ELSE IF Truthy(due) /\ due.n < today_ /\ lower(or_empty(current)) # s_done
     THEN Str(s_Overdue)
     ELSE IF Truthy(due) /\ 0 <= due.n - today_ /\ due.n - today_ <= window
             /\ lower(or_empty(current)) # s_done
     THEN Str(s_Due_Soon)
     ELSE IF Truthy(current) /\ current # Str(s_Rescheduled)
     THEN current
     ELSE IF Truthy(start) /\ start.n <= today_
     THEN Str(s_Under_Progress)
     ELSE Str(s_Not_Done)

\* pd.Categorical(values, categories=STATUS_ORDER): a value outside the categories is NaN
Categorical(v) ==
  IF \E i \in 1..Len(STATUS_ORDER) : v = Str(STATUS_ORDER[i]) THEN v ELSE NaN

\* ----------------------------------------------------- Approval Resolver
\* dict[key] = value
dict_set(d, key, value) == {p \in d : p[1] # key} \cup {<<key, value>>}
dict_has(d, key) == \E p \in d : p[1] = key

\* process_excel's loop over the Change_Log sheet: approver_by_id, whose keys are
\* approved_ids.  The ids of the sheet are stored unstripped.
RECURSIVE core_approver_by_id(_)
core_approver_by_id(log) ==
  IF log = <<>>
  THEN {}
  ELSE LET r == log[Len(log)]
           m == core_approver_by_id(SubSeq(log, 1, Len(log) - 1))
           cid == r.Change_ID
           st == IF r.Status # None THEN lower(strip(str(r.Status))) ELSE s_empty
       IN IF cid # None /\ cid # Str(s_empty) /\ st = s_approved
          THEN dict_set(m, str(cid), r.Approved_By)
          ELSE m

\* apply_approval moving the due date to the target whatever the current due date is
apply_approval_any_target(row, approver_by_id) ==
  LET cr_id == row.Change_Request_ID
      key == strip(str(cr_id))
  IN IF isna(cr_id) \/ cr_id = Str(s_empty)
     THEN row
     ELSE IF ~dict_has(approver_by_id, key)
     THEN row
     ELSE [row EXCEPT
             !.Approval_Status = Str(s_Approved),
             !.Approval_By = IF ~isna(row.Approval_By) /\ Truthy(row.Approval_By)
                             THEN @
                             ELSE dict_get(approver_by_id, key, row.Approval_By),
             !.DueDate = IF Truthy(row.RescheduledTo) THEN row.RescheduledTo ELSE @]

\* apply_approval overwriting the task's own approval-by
apply_approval_overwrite_by(row, approver_by_id) ==
  LET cr_id == row.Change_Request_ID
      key == strip(str(cr_id))
      res == row.RescheduledTo
  IN IF isna(cr_id) \/ cr_id = Str(s_empty)
     THEN row
     ELSE IF ~dict_has(approver_by_id, key)
     THEN row
     ELSE [row EXCEPT
             !.Approval_Status = Str(s_Approved),
             !.Approval_By = dict_get(approver_by_id, key, row.Approval_By),
             !.DueDate = IF Truthy(res) /\ (row.DueDate = None \/ res.n > row.DueDate.n)
                         THEN res ELSE @]

\* apply_approval clearing the approval status of a task whose request is not approved
apply_approval_clears(row, approver_by_id) ==
  LET cr_id == row.Change_Request_ID
      key == strip(str(cr_id))
      res == row.RescheduledTo
  IN IF isna(cr_id) \/ cr_id = Str(s_empty)
     THEN row
     ELSE IF ~dict_has(approver_by_id, key)
     THEN [row EXCEPT !.Approval_Status = None]
     ELSE [row EXCEPT
             !.Approval_Status = Str(s_Approved),
             !.Approval_By = IF ~isna(row.Approval_By) /\ Truthy(row.Approval_By)
                             THEN @
                             ELSE dict_get(approver_by_id, key, row.Approval_By),
             !.DueDate = IF Truthy(res) /\ (row.DueDate = None \/ res.n > row.DueDate.n)
                         THEN res ELSE @]

\* process_excel.apply_approval
apply_approval(row, approver_by_id) ==
  LET cr_id == row.Change_Request_ID
      key == strip(str(cr_id))
      res == row.RescheduledTo
  IN IF isna(cr_id) \/ cr_id = Str(s_empty)
     THEN row
     ELSE IF ~dict_has(approver_by_id, key)
     THEN row
     ELSE [row EXCEPT
             !.Approval_Status = Str(s_Approved),
             !.Approval_By = IF ~isna(row.Approval_By) /\ Truthy(row.Approval_By)
                             THEN @
                             ELSE dict_get(approver_by_id, key, row.Approval_By),
             !.DueDate = IF Truthy(res) /\ (row.DueDate = None \/ res.n > row.DueDate.n)
                         THEN res ELSE @]

\* app_db.get_approved_map
RECURSIVE get_approved_map(_)
get_approved_map(log) ==
  IF log = <<>>
  THEN {}
  ELSE LET r == log[Len(log)]
           m == get_approved_map(SubSeq(log, 1, Len(log) - 1))
       IN IF lower(strip(str(r.Status))) = s_approved
          THEN dict_set(m, str(r.Change_ID), r.Approved_By)
          ELSE m

\* process_df, "apply approvals", for one row
db_apply_approval(row, appr) ==
  LET cr == row.Change_Request_ID
      res == db_to_date(row.RescheduledTo)
      due == db_to_date(row.DueDate)
  IN IF Truthy(cr) /\ dict_has(appr, str(cr))
     THEN [row EXCEPT
             !.Approval_Status = Str(s_Approved),
             !.Approval_By = IF ~Truthy(row.Approval_By)
                             THEN dict_get(appr, str(cr), None) ELSE @,
             !.DueDate = IF Truthy(res) /\ (~Truthy(due) \/ res.n > due.n)
                         THEN IsoStr(res.n) ELSE @]
     ELSE row

\* ---------------------------------------------------------- SLA Resolver
\* int(v): [ok, n]; ok is FALSE where Python raises (NaN, None, text that is no integer).
py_int(v) ==
  CASE v.k = "num" -> [ok |-> TRUE, n |-> v.n]
    [] v.k = "str" /\ Len(strip(v.s)) = 1 /\ (\E i \in 1..Len(Digits) : Digits[i] = strip(v.s)[1]) ->
         [ok |-> TRUE, n |-> (CHOOSE i \in 1..Len(Digits) : Digits[i] = strip(v.s)[1]) - 1]
    [] OTHER -> [ok |-> FALSE, n |-> 0]

\* x in [None, "", 0]
in_none_empty_zero(v) == v = None \/ v = Str(s_empty) \/ (v.k = "num" /\ v.n = 0)

\* process_excel's loop over the SLA_Policies sheet: sla_map
RECURSIVE core_sla_map(_)
core_sla_map(policies) ==
  IF policies = <<>>
  THEN {}
  ELSE LET r == policies[Len(policies)]
           m == core_sla_map(SubSeq(policies, 1, Len(policies) - 1))
       IN dict_set(m, <<strip(str(r.Category)), strip(str(r.Priority))>>, r.TargetDays)

\* fill_sla_days returning the policy's target-days whatever the task's own value is
fill_sla_days_always(row, sla_map) ==
  LET cat == IF row.Category # None THEN strip(str(row.Category)) ELSE s_empty
      pri == IF row.Priority # None THEN strip(str(row.Priority)) ELSE s_empty
  IN dict_get(sla_map, <<cat, pri>>, row.SLA_TargetDays)

\* process_excel.fill_sla_days
fill_sla_days(row, sla_map) ==
  IF isna(row.SLA_TargetDays) \/ in_none_empty_zero(row.SLA_TargetDays)
  THEN LET cat == IF row.Category # None THEN strip(str(row.Category)) ELSE s_empty
           pri == IF row.Priority # None THEN strip(str(row.Priority)) ELSE s_empty
       IN dict_get(sla_map, <<cat, pri>>, row.SLA_TargetDays)
  ELSE row.SLA_TargetDays

\* compute_sla_due adding one day too many
compute_sla_due_off_by_one(row) ==
  LET created == row.CreatedOn
      days == row.SLA_TargetDays
  IN IF Truthy(created) /\ ~isna(days) /\ str(days) # s_empty /\ py_int(days).ok
     THEN Date(created.n + py_int(days).n + 1)
     ELSE None

\* process_excel.compute_sla_due
compute_sla_due(row) ==
  LET created == row.CreatedOn
      days == row.SLA_TargetDays
  IN IF Truthy(created) /\ ~isna(days) /\ str(days) # s_empty
     THEN IF py_int(days).ok THEN Date(created.n + py_int(days).n) ELSE None
     ELSE None

\* process_excel.compute_sla_breach; date_today is dt.date.today(), the wall clock
compute_sla_breach(row, date_today) ==
  LET sla_due == row.SLA_DueDate
      comp == row.CompletedOn
      status == core_canon_status(row.Status)
  IN IF ~Truthy(sla_due)
     THEN FALSE
     ELSE IF Truthy(comp)
     THEN comp.n > sla_due.n
     ELSE date_today > sla_due.n /\ status # Str(s_Done)

\* app_db.get_sla_map
RECURSIVE get_sla_map(_)
get_sla_map(policies) ==
  IF policies = <<>>
  THEN {}
  ELSE LET r == policies[Len(policies)]
           m == get_sla_map(SubSeq(policies, 1, Len(policies) - 1))
       IN dict_set(m, <<strip(str(r.Category)), strip(str(r.Priority))>>, r.TargetDays)

\* process_df.fill_sla
fill_sla(row, sla_map) ==
  IF isna(row.SLA_TargetDays) \/ in_none_empty_zero(row.SLA_TargetDays)
  THEN LET cat == strip(IF Truthy(row.Category) THEN str(row.Category) ELSE s_empty)
           pri == strip(IF Truthy(row.Priority) THEN str(row.Priority) ELSE s_empty)
       IN dict_get(sla_map, <<cat, pri>>, row.SLA_TargetDays)
  ELSE row.SLA_TargetDays

\* process_df.sla_due
sla_due(row) ==
  LET created == db_to_date(row.CreatedOn)
      days == row.SLA_TargetDays
      d == IF days # None /\ days # Str(s_empty) THEN py_int(days) ELSE [ok |-> FALSE, n |-> 0]
  IN IF Truthy(created) /\ d.ok THEN IsoStr(created.n + d.n) ELSE None

\* process_df.sla_breach
sla_breach(row, today_) ==
  LET due == db_to_date(row.SLA_DueDate)
      comp == db_to_date(row.CompletedOn)
      status == db_canon_status(row.Status)
  IN IF ~Truthy(due)
     THEN FALSE
     ELSE IF Truthy(comp)
     THEN comp.n > due.n
     ELSE today_ > due.n /\ status # Str(s_Done)

\* ---------------------------------------------------------------- inputs
s_DONE == <<"D", "O", "N", "E">>
s_Waiting == <<"W", "a", "i", "t", "i", "n", "g">>
s_Rejected == <<"R", "e", "j", "e", "c", "t", "e", "d">>
s_Pending == <<"P", "e", "n", "d", "i", "n", "g">>
s_CR1 == <<"C", "R", "1">>
s_CR2 == <<"C", "R", "2">>
s_tbd == <<"t", "b", "d">>
s_A == <<"A">>
s_B == <<"B">>

UpperChar(c) ==
  IF \E i \in 1..Len(LowerChars) : LowerChars[i] = c
  THEN UpperChars[CHOOSE i \in 1..Len(LowerChars) : LowerChars[i] = c]
  ELSE c
upper(chars) == [i \in 1..Len(chars) |-> UpperChar(chars[i])]
padded(chars) == <<" ">> \o chars \o <<" ", "\t">>

\* The canonical labels of the Status Canonicalizer.
CanonicalLabels == {s_Done, s_Under_Progress, s_Not_Done, s_Rescheduled, s_Blocked}
\* Status texts the synonym table does not know.
UnknownWords == {s_Waiting, s_Overdue, s_Due_Soon}
\* Every synonym, label and unknown text, as written, in upper case and padded.
StatusWords ==
  LET base == {p[1] : p \in CANON_STATUS} \cup CanonicalLabels \cup UnknownWords
  IN base \cup {upper(w) : w \in base} \cup {padded(w) : w \in base}
BlankWords == {s_empty, <<" ">>, <<" ", "\t">>}

\* Status cells of an uploaded sheet: empty (NaN), missing column (None), a number, text.
\* pd.read_excel reads an empty text as NaN, so "" is no cell of a sheet.
CoreStatusCellsAll ==
  {None, NaN, Num(5)} \cup {Str(w) : w \in (StatusWords \cup BlankWords) \ {s_empty}}
\* Status values of the tasks table (TEXT): NULL or text.
DbStatusCellsAll == {None} \cup {Str(w) : w \in StatusWords \cup BlankWords}
\* One status text of every kind the Status Engine tells apart.
EngineWords ==
  {s_empty, <<" ">>, s_done, s_Done, padded(s_DONE), s_in_progress, s_Not_Done, s_deferred,
   s_Rescheduled, s_Blocked, s_Waiting, s_Overdue, s_Due_Soon}
CoreStatusCells == {None, NaN, Num(5)} \cup {Str(w) : w \in EngineWords \ {s_empty}}
DbStatusCells == {None} \cup {Str(w) : w \in EngineWords}

Days == 0..MaxDay
Windows == 1..MaxWindow
Todays == 1..(MaxDay - MaxWindow)
\* Date cells of an uploaded sheet: empty, unparseable text, a date.
CoreDateCells == {NaN, Str(s_tbd)} \cup {Date(d) : d \in Days}
\* Date values of the tasks table (TEXT): NULL, unparseable text, ISO text.
DbDateCells == {None, Str(s_tbd)} \cup {IsoStr(d) : d \in Days}
\* tasks.DueDate is NOT NULL.
DbDueCells == {Str(s_tbd)} \cup {IsoStr(d) : d \in Days}

ApprDays == 0..MaxApprDay
LogRows(ids, statuses, approvers) ==
  [Change_ID : ids, Status : statuses, Approved_By : approvers]
RECURSIVE SeqsUpTo(_, _)
SeqsUpTo(S, n) ==
  IF n = 0 THEN {<<>>}
  ELSE SeqsUpTo(S, n - 1) \cup {Append(q, x) : q \in {t \in SeqsUpTo(S, n - 1) : Len(t) = n - 1}, x \in S}
\* Change_Log sheets: ids and statuses as typed, the approver possibly empty.
CoreLogs ==
  SeqsUpTo(LogRows({Str(s_CR1), Str(s_CR2)}, {Str(s_Approved), Str(s_Rejected)},
                   {Str(s_A), NaN}), MaxLog)
\* change_log tables: Change_ID is the primary key.
DbLogs ==
  {l \in SeqsUpTo(LogRows({Str(s_CR1), Str(s_CR2)}, {Str(s_Approved), Str(s_Rejected)},
                          {Str(s_A), Str(s_empty)}), MaxLog) :
     \A i, j \in 1..Len(l) : l[i].Change_ID = l[j].Change_ID => i = j}

TaskRow(status, start, due, res, appr_status, appr_by, cr) ==
  [Status |-> status, StartDate |-> start, DueDate |-> due, RescheduledTo |-> res,
   Approval_Status |-> appr_status, Approval_By |-> appr_by, Change_Request_ID |-> cr,
   Status_Orig |-> None, DueDate_Orig |-> None, Status_Final |-> None, Task |-> None,
   Category |-> None, Priority |-> None, SLA_TargetDays |-> None,
   CreatedOn |-> None, CompletedOn |-> None, SLA_DueDate |-> None, SLA_Breach |-> FALSE,
   Is_Overdue |-> FALSE, Is_DueSoon |-> FALSE, Is_Done |-> FALSE]

s_IT == <<"I", "T">>
s_High == <<"H", "i", "g", "h">>
s_Low == <<"L", "o", "w">>

\* SLA target-days cells: empty, zero, a number, text that is a number, other text.
TargetDays == 0..MaxTarget
CoreTargetCells ==
  {NaN, Str(s_tbd), Str(<<Digits[MaxTarget + 1]>>)} \cup {Num(i) : i \in TargetDays}
DbTargetCells ==
  {None, NaN, Str(s_tbd), Str(<<Digits[MaxTarget + 1]>>)} \cup {Num(i) : i \in TargetDays}
CreatedDays == 0..MaxCreated
\* The days an SLA due date can fall on.
SlaDays == 0..(MaxCreated + MaxTarget)
\* The SLA policy table: a category is stored trimmed or padded.
PolicyRows ==
  {[Category |-> Str(s_IT), Priority |-> Str(s_High), TargetDays |-> Num(MaxTarget)],
   [Category |-> Str(padded(s_IT)), Priority |-> Str(s_High), TargetDays |-> Num(MaxTarget - 1)]}
Policies == SeqsUpTo(PolicyRows, MaxPolicies)

\* A task row of a table: its title, status and due date.
TableRow(task, status, due, empty) ==
  [TaskRow(status, empty, due, empty, empty, empty, empty) EXCEPT !.Task = task]
\* Sheets: a title may be empty, a status is empty, a synonym or unknown text; the
\* due date is before today or beyond the window.
CoreTables ==
  SeqsUpTo({TableRow(t, st, Date(d), NaN) :
              t \in {NaN, Str(s_A)}, st \in {NaN, Str(s_done), Str(s_Waiting)}, d \in {0, MaxDay}},
           MaxTasks) \ {<<>>}
\* The tasks table: Task is NOT NULL.
DbTables ==
  SeqsUpTo({TableRow(Str(t), st, IsoStr(d), None) :
              t \in {s_A, s_B}, st \in {None, Str(s_done), Str(s_Waiting)}, d \in {0, MaxDay}},
           MaxTasks) \ {<<>>}

\* A task row with the columns the SLA Resolver reads.
SlaRow(status, category, priority, target_days, created, completed) ==
  [TaskRow(status, None, None, None, None, None, None) EXCEPT
     !.Category = category, !.Priority = priority, !.SLA_TargetDays = target_days,
     !.CreatedOn = created, !.CompletedOn = completed]

\* ---------------------------------------------------------------- state
VARIABLES
  mode,           \* "upload": process_excel on an uploaded sheet; "db": process_df on the tasks table
  pc,             \* the stage the run has completed
  row,            \* the working copy of the task row
  before,         \* the row as it entered the stage completed last
  change_log,     \* the rows of the Change_Log sheet / change_log table
  today,          \* the run's "today"
  due_soon_days,  \* the due_soon_days argument
  session_state,  \* st.session_state of the database app
  sla_policies,   \* the rows of the SLA_Policies sheet / sla_policies table
  date_today,     \* dt.date.today(), the wall clock's date
  df,             \* the task table of a run: the rows of the sheet / of load_df()
  status_pivot,   \* the by-final-status pivot: rows [Status_Final, Count]
  tasks,          \* the tasks table of followup.db: its rows, each with its id
  next_id,        \* the id AUTOINCREMENT gives the next inserted task
  owners,         \* the owners table
  backup_xlsx     \* FollowUp_AutoBackup.xlsx: whether it exists and the task rows it lists

\* What a run reads and never writes.
inputs == <<mode, change_log, today, due_soon_days, session_state, sla_policies, date_today>>

\* The table and pivot of a whole run.
table == <<df, status_pivot>>
\* The database and the snapshot file of the database app.
app == <<tasks, next_id, owners, backup_xlsx>>

vars == <<pc, row, before, inputs, table, app>>

\* No table is being processed.
NoTable == df = <<>> /\ status_pivot = <<>>
\* A fresh database (init_db) and no snapshot file.
NoFile == [written |-> FALSE, rows |-> {}]
NoApp == tasks = {} /\ next_id = 1 /\ owners = <<>> /\ backup_xlsx = NoFile

\* An uploaded sheet whose status and dates vary; no change request.
InitUploadStatus ==
  /\ mode = "upload"
  /\ \E st \in CoreStatusCells, sd \in CoreDateCells, dd \in CoreDateCells, rd \in CoreDateCells :
       row = TaskRow(st, sd, dd, rd, NaN, NaN, NaN)
  /\ change_log = <<>>
  /\ today \in Todays
  /\ due_soon_days \in Windows
  /\ session_state = {}
  /\ sla_policies = <<>>
  /\ date_today = today

\* An uploaded sheet whose status text varies over every spelling.
InitUploadCanon ==
  /\ mode = "upload"
  /\ \E st \in CoreStatusCellsAll : row = TaskRow(st, NaN, NaN, NaN, NaN, NaN, NaN)
  /\ change_log = <<>>
  /\ today = 1
  /\ due_soon_days = 1
  /\ session_state = {}
  /\ sla_policies = <<>>
  /\ date_today = today

\* An uploaded sheet with a Change_Log sheet; the tasks carry no status of their own.
InitUploadApproval ==
  /\ mode = "upload"
  /\ \E st \in {NaN},
        dd \in {NaN} \cup {Date(d) : d \in ApprDays},
        rd \in {NaN} \cup {Date(d) : d \in ApprDays},
        as \in {NaN, Str(s_Pending)},
        ab \in {NaN, Str(s_B)},
        cr \in {NaN, Str(<<" ">>), Str(s_CR1), Str(padded(s_CR1)), Str(s_CR2)} :
       row = TaskRow(st, NaN, dd, rd, as, ab, cr)
  /\ change_log \in CoreLogs
  /\ today = 1
  /\ due_soon_days = 1
  /\ session_state = {}
  /\ sla_policies = <<>>
  /\ date_today = today

\* The tasks table; the sidebar has stored the window in the session.
InitDbStatus ==
  /\ mode = "db"
  /\ \E st \in DbStatusCells, sd \in DbDateCells, dd \in DbDueCells, rd \in DbDateCells :
       row = TaskRow(st, sd, dd, rd, None, None, None)
  /\ change_log = <<>>
  /\ today \in Todays
  /\ due_soon_days \in Windows
  /\ session_state = {<<"due_soon_days", due_soon_days>>}
  /\ sla_policies = <<>>
  /\ date_today = today

InitDbCanon ==
  /\ mode = "db"
  /\ \E st \in DbStatusCellsAll : row = TaskRow(st, None, IsoStr(1), None, None, None, None)
  /\ change_log = <<>>
  /\ today = 1
  /\ due_soon_days = 1
  /\ session_state = {<<"due_soon_days", due_soon_days>>}
  /\ sla_policies = <<>>
  /\ date_today = today

InitDbApproval ==
  /\ mode = "db"
  /\ \E st \in {None},
        dd \in {Str(s_tbd)} \cup {IsoStr(d) : d \in ApprDays},
        rd \in {None} \cup {IsoStr(d) : d \in ApprDays},
        as \in {None, Str(s_Pending)},
        ab \in {None, Str(s_B)},
        cr \in {None, Str(s_CR1), Str(padded(s_CR1)), Str(s_CR2)} :
       row = TaskRow(st, None, dd, rd, as, ab, cr)
  /\ change_log \in DbLogs
  /\ today = 1
  /\ due_soon_days = 1
  /\ session_state = {<<"due_soon_days", due_soon_days>>}
  /\ sla_policies = <<>>
  /\ date_today = today

\* An uploaded sheet with SLA columns and an SLA_Policies sheet; "today" may be
\* an override, so the wall clock's date is any day.
InitUploadSla ==
  /\ mode = "upload"
  /\ \E st \in {NaN, Str(s_completed)},
        cat \in {NaN, Str(s_IT), Str(padded(s_IT))},
        pri \in {Str(s_High), Str(s_Low)},
        td \in CoreTargetCells,
        cr \in {NaN} \cup {Date(d) : d \in CreatedDays},
        co \in {NaN} \cup {Date(d) : d \in SlaDays} :
       row = SlaRow(st, cat, pri, td, cr, co)
  /\ change_log = <<>>
  /\ today \in Todays
  /\ due_soon_days = 1
  /\ session_state = {}
  /\ sla_policies \in Policies
  /\ date_today \in Todays

\* The tasks table with SLA columns and the sla_policies table.
InitDbSla ==
  /\ mode = "db"
  /\ \E st \in {None, Str(s_completed)},
        cat \in {None, Str(s_IT), Str(padded(s_IT))},
        pri \in {Str(s_High), Str(s_Low)},
        td \in DbTargetCells,
        cr \in {None} \cup {IsoStr(d) : d \in CreatedDays},
        co \in {None} \cup {IsoStr(d) : d \in SlaDays} :
       row = [SlaRow(st, cat, pri, td, cr, co) EXCEPT !.DueDate = IsoStr(MaxDay)]
  /\ change_log = <<>>
  /\ today \in Todays
  /\ due_soon_days = 1
  /\ session_state = {<<"due_soon_days", due_soon_days>>}
  /\ sla_policies \in Policies
  /\ date_today = today

InitSla ==
  /\ pc = "loaded"
  /\ \/ InitUploadSla
     \/ InitDbSla
  /\ before = row
  /\ NoTable /\ NoApp

Init ==
  /\ pc = "loaded"
  /\ \/ InitUploadStatus
     \/ InitUploadCanon
     \/ InitUploadApproval
     \/ InitDbStatus
     \/ InitDbCanon
     \/ InitDbApproval
  /\ before = row
  /\ NoTable /\ NoApp

\* ------------------------------------------------ the stages on one row
\* process_excel: dates parsed, status canonicalized, the originals kept
core_normalize(r) ==
  [r EXCEPT
     !.StartDate = core_to_date(r.StartDate),
     !.DueDate = core_to_date(r.DueDate),
     !.RescheduledTo = core_to_date(r.RescheduledTo),
     !.Status_Orig = r.Status,
     !.Status = core_canon_status(r.Status),
     !.DueDate_Orig = core_to_date(r.DueDate),
     !.CreatedOn = core_to_date(r.CreatedOn),
     !.CompletedOn = core_to_date(r.CompletedOn)]

\* process_excel: apply_approval applied when some change request is approved
core_approve(r, log) ==
  LET approver_by_id == core_approver_by_id(log)
  IN IF approver_by_id # {} THEN apply_approval(r, approver_by_id) ELSE r

\* process_excel: target-days filled when there are policies, then SLA_DueDate and SLA_Breach
core_sla(r, policies, clock) ==
  LET sla_map == core_sla_map(policies)
      filled == IF sla_map # {}
                THEN [r EXCEPT !.SLA_TargetDays = fill_sla_days(r, sla_map)]
                ELSE r
      dued == [filled EXCEPT !.SLA_DueDate = compute_sla_due(filled)]
  IN [dued EXCEPT !.SLA_Breach = compute_sla_breach(dued, clock)]

\* process_excel: Status_Final
core_final(r, today_, due_soon_days_) ==
  [r EXCEPT !.Status_Final = core_compute_status_row(r, today_, due_soon_days_)]

\* process_excel: Status_Final made a Categorical over STATUS_ORDER, then the flags
core_categorical(r) ==
  LET final == Categorical(r.Status_Final)
  IN [r EXCEPT
        !.Status_Final = final,
        !.Is_Overdue = (final = Str(s_Overdue)),
        !.Is_DueSoon = (final = Str(s_Due_Soon)),
        !.Is_Done = (final = Str(s_Done))]

\* process_df: apply approvals
db_approve(r, log) ==
  LET appr == get_approved_map(log)
  IN IF appr # {} THEN db_apply_approval(r, appr) ELSE r

\* process_df: apply SLA, SLA_DueDate and SLA_Breach
db_sla(r, policies, today_) ==
  LET sla_map == get_sla_map(policies)
      filled == IF sla_map # {}
                THEN [r EXCEPT !.SLA_TargetDays = fill_sla(r, sla_map)]
                ELSE r
      dued == [filled EXCEPT !.SLA_DueDate = sla_due(filled)]
  IN [dued EXCEPT !.SLA_Breach = sla_breach(dued, today_)]

\* process_df: Status_Final, then the flags
db_final(r, today_, due_soon_days_, session) ==
  LET final == db_compute_status_row(r, today_, due_soon_days_, session)
  IN [r EXCEPT
        !.Status_Final = final,
        !.Is_Overdue = (final = Str(s_Overdue)),
        !.Is_DueSoon = (final = Str(s_Due_Soon)),
        !.Is_Done = (final = Str(s_Done))]

\* ------------------------------------------------------ the whole table
\* process_excel up to the flags, on every row of the sheet
process_excel(df_, log, policies, today_, due_soon_days_, clock) ==
  [i \in 1..Len(df_) |->
     core_categorical(core_final(core_sla(core_approve(core_normalize(df_[i]), log),
                                          policies, clock),
                                 today_, due_soon_days_))]

\* process_df, on every row of the tasks table
process_df(df_, log, policies, today_, due_soon_days_, session) ==
  [i \in 1..Len(df_) |->
     db_final(db_sla(db_approve(df_[i], log), policies, today_),
              today_, due_soon_days_, session)]

\* aggfunc="count": the rows of the group whose Task is not null
count_Task(df_, key) ==
  Cardinality({i \in 1..Len(df_) : df_[i].Status_Final = key /\ ~isna(df_[i].Task)})

\* process_excel's status_pivot: Status_Final is categorical, so the pivot has one
\* row per category, in category order, and sort_values keeps that order; a row
\* whose Status_Final is NaN belongs to no group.
core_status_pivot(df_) ==
  [i \in 1..Len(STATUS_ORDER) |->
     [Status_Final |-> Str(STATUS_ORDER[i]), Count |-> count_Task(df_, Str(STATUS_ORDER[i]))]]

\* The code points of the characters, in their order.
Ascii == <<"\t", " ">> \o Digits \o UpperChars \o LowerChars
ord(c) == CHOOSE i \in 1..Len(Ascii) : Ascii[i] = c
\* a < b on str
RECURSIVE str_lt(_, _)
str_lt(a, b) ==
  IF a = <<>> THEN b # <<>>
  ELSE IF b = <<>> THEN FALSE
  ELSE IF a[1] = b[1] THEN str_lt(Tail(a), Tail(b))
  ELSE ord(a[1]) < ord(b[1])
\* The group keys of a groupby on a text column: sorted
RECURSIVE sorted(_)
sorted(keys) ==
  IF keys = {}
  THEN <<>>
  ELSE LET least == CHOOSE x \in keys : \A y \in keys \ {x} : str_lt(x.s, y.s)
       IN <<least>> \o sorted(keys \ {least})

\* export_excel's piv_status: Status_Final is text, one row per value present,
\* in the sorted order of the group keys
db_piv_status(df_) ==
  LET keys == sorted({df_[i].Status_Final : i \in {j \in 1..Len(df_) : ~isna(df_[j].Status_Final)}})
  IN [i \in 1..Len(keys) |-> [Status_Final |-> keys[i], Count |-> count_Task(df_, keys[i])]]

\* ---------------------------------------------------------------- steps
\* process_excel: dates parsed, status canonicalized, the originals kept
CoreNormalize ==
  /\ mode = "upload" /\ pc = "loaded"
  /\ before' = row
  /\ row' = core_normalize(row)
  /\ pc' = "normalized"
  /\ UNCHANGED <<inputs, table, app>>

\* process_excel: the change log is read and apply_approval applied when some id is approved
CoreApplyApproval ==
  /\ mode = "upload" /\ pc = "normalized"
  /\ before' = row
  /\ row' = core_approve(row, change_log)
  /\ pc' = "approved"
  /\ UNCHANGED <<inputs, table, app>>

\* process_excel: the SLA policies are read, target-days filled when there are
\* policies, then SLA_DueDate and SLA_Breach computed
CoreSla ==
  /\ mode = "upload" /\ pc = "approved"
  /\ before' = row
  /\ row' = core_sla(row, sla_policies, date_today)
  /\ pc' = "sla"
  /\ UNCHANGED <<inputs, table, app>>

\* process_excel: Status_Final from compute_status_row
CoreStatusFinal ==
  /\ mode = "upload" /\ pc = "sla"
  /\ before' = row
  /\ row' = core_final(row, today, due_soon_days)
  /\ pc' = "final"
  /\ UNCHANGED <<inputs, table, app>>

\* process_excel: Status_Final made a Categorical over STATUS_ORDER, then the flags
CoreCategorical ==
  /\ mode = "upload" /\ pc = "final"
  /\ before' = row
  /\ row' = core_categorical(row)
  /\ pc' = "categorical"
  /\ UNCHANGED <<inputs, table, app>>

\* process_df: apply approvals
DbApplyApproval ==
  /\ mode = "db" /\ pc = "loaded"
  /\ before' = row
  /\ row' = db_approve(row, change_log)
  /\ pc' = "approved"
  /\ UNCHANGED <<inputs, table, app>>

\* process_df: apply SLA, SLA_DueDate and SLA_Breach
DbSla ==
  /\ mode = "db" /\ pc = "approved"
  /\ before' = row
  /\ row' = db_sla(row, sla_policies, today)
  /\ pc' = "sla"
  /\ UNCHANGED <<inputs, table, app>>

\* process_df: Status_Final from compute_status_row, then the flags
DbStatusFinal ==
  /\ mode = "db" /\ pc = "sla"
  /\ before' = row
  /\ row' = db_final(row, today, due_soon_days, session_state)
  /\ pc' = "final"
  /\ UNCHANGED <<inputs, table, app>>

Next ==
  \/ CoreNormalize
  \/ CoreApplyApproval
  \/ CoreSla
  \/ CoreStatusFinal
  \/ CoreCategorical
  \/ DbApplyApproval
  \/ DbSla
  \/ DbStatusFinal

Spec == Init /\ [][Next]_vars

\* The same steps on the rows that carry SLA columns.
SpecSla == InitSla /\ [][Next]_vars

\* ------------------------------------------------- a run on a whole table
\* A sheet is uploaded, or the tasks table is exported.
InitTable ==
  /\ pc = "table"
  /\ \/ mode = "upload" /\ df \in CoreTables /\ session_state = {}
     \/ mode = "db" /\ df \in DbTables /\ session_state = {<<"due_soon_days", 1>>}
  /\ status_pivot = <<>>
  /\ row = TaskRow(None, None, None, None, None, None, None)
  /\ before = row
  /\ change_log = <<>>
  /\ sla_policies = <<>>
  /\ today = 1
  /\ date_today = today
  /\ due_soon_days = 1
  /\ NoApp

\* process_excel: every row enriched
CoreProcessTable ==
  /\ mode = "upload" /\ pc = "table"
  /\ df' = process_excel(df, change_log, sla_policies, today, due_soon_days, date_today)
  /\ pc' = "enriched"
  /\ UNCHANGED <<row, before, inputs, status_pivot, app>>

\* process_excel: status_pivot
CoreStatusPivot ==
  /\ mode = "upload" /\ pc = "enriched"
  /\ status_pivot' = core_status_pivot(df)
  /\ pc' = "pivoted"
  /\ UNCHANGED <<row, before, inputs, df, app>>

\* process_df: every row enriched
DbProcessTable ==
  /\ mode = "db" /\ pc = "table"
  /\ df' = process_df(df, change_log, sla_policies, today, due_soon_days, session_state)
  /\ pc' = "enriched"
  /\ UNCHANGED <<row, before, inputs, status_pivot, app>>

\* export_excel: piv_status
DbExportPivot ==
  /\ mode = "db" /\ pc = "enriched"
  /\ status_pivot' = db_piv_status(df)
  /\ pc' = "pivoted"
  /\ UNCHANGED <<row, before, inputs, df, app>>

NextTable ==
  \/ CoreProcessTable
  \/ CoreStatusPivot
  \/ DbProcessTable
  \/ DbExportPivot

SpecTable == InitTable /\ [][NextTable]_vars

\* ------------------------------------------------------- the database app
\* upsert_task(row): INSERT, the id given by AUTOINCREMENT
insert_task(tasks_, id, r) == tasks_ \cup {[id |-> id, row |-> r]}
\* upsert_task(row, task_id): UPDATE ... WHERE id=?
update_task(tasks_, id, status, due) ==
  {IF t.id = id THEN [t EXCEPT !.row.Status = status, !.row.DueDate = due] ELSE t : t \in tasks_}
\* delete_task
delete_task(tasks_, id) == {t \in tasks_ : t.id # id}
\* INSERT INTO change_log ... ON CONFLICT(Change_ID) DO UPDATE
upsert_change(log, r) ==
  IF \E i \in 1..Len(log) : log[i].Change_ID = r.Change_ID
  THEN [i \in 1..Len(log) |-> IF log[i].Change_ID = r.Change_ID THEN r ELSE log[i]]
  ELSE Append(log, r)

\* auto_backup_now, its Excel part: the snapshot is written from the processed
\* tasks table when the table is not empty, and left as it is otherwise.
auto_backup_now(tasks_, log, policies, today_, session, file) ==
  IF tasks_ # {}
  THEN [written |-> TRUE,
        rows |-> {[id |-> t.id,
                   row |-> db_final(db_sla(db_approve(t.row, log), policies, today_),
                                    today_, dict_get(session, "due_soon_days", 3), session)] :
                  t \in tasks_}]
  ELSE file

\* The rows the Add Task form and an imported sheet insert, the rows of the
\* change-log form.
FormStatuses == {None, Str(s_Done)}
EditStatuses == {Str(s_Not_Done), Str(s_Done)}
ImportStatuses == {Str(s_Waiting)}
FormLogRows ==
  LogRows({Str(s_CR1), Str(s_CR2)}, {Str(s_Approved), Str(s_Rejected)}, {Str(s_A)})

\* The app has started: init_db on a fresh database, the sidebar has stored the window.
InitApp ==
  /\ mode = "app"
  /\ pc = "app"
  /\ row = TaskRow(None, None, None, None, None, None, None)
  /\ before = row
  /\ change_log = <<>>
  /\ sla_policies = <<>>
  /\ today = 1
  /\ date_today = today
  /\ due_soon_days = 1
  /\ session_state = {<<"due_soon_days", due_soon_days>>}
  /\ NoTable
  /\ NoApp

\* "Add Task": upsert_task(row); auto_backup_now()
AddTask ==
  /\ mode = "app" /\ next_id <= MaxTaskId
  /\ \E st \in FormStatuses :
       tasks' = insert_task(tasks, next_id, TableRow(Str(s_A), st, IsoStr(MaxDay), None))
  /\ next_id' = next_id + 1
  /\ backup_xlsx' = auto_backup_now(tasks', change_log, sla_policies, today, session_state, backup_xlsx)
  /\ UNCHANGED <<pc, row, before, inputs, table, owners>>

\* "Save changes": upsert_task({...}, task_id=edited_id); auto_backup_now()
EditTask ==
  /\ mode = "app"
  /\ \E t \in tasks, st \in EditStatuses, d \in {0, MaxDay} :
       tasks' = update_task(tasks, t.id, st, IsoStr(d))
  /\ backup_xlsx' = auto_backup_now(tasks', change_log, sla_policies, today, session_state, backup_xlsx)
  /\ UNCHANGED <<pc, row, before, inputs, table, next_id, owners>>

\* "Confirm delete": delete_task(del_id); auto_backup_now()
DeleteTask ==
  /\ mode = "app"
  /\ \E t \in tasks : tasks' = delete_task(tasks, t.id)
  /\ backup_xlsx' = auto_backup_now(tasks', change_log, sla_policies, today, session_state, backup_xlsx)
  /\ UNCHANGED <<pc, row, before, inputs, table, next_id, owners>>

\* Change log "Add/Update": upsert; auto_backup_now()
ChangeLogUpsert ==
  /\ mode = "app"
  /\ \E r \in FormLogRows :
       /\ Len(upsert_change(change_log, r)) <= MaxLog
       /\ change_log' = upsert_change(change_log, r)
  /\ backup_xlsx' = auto_backup_now(tasks, change_log', sla_policies, today, session_state, backup_xlsx)
  /\ UNCHANGED <<pc, row, before, mode, today, due_soon_days, session_state, sla_policies,
                 date_today, table, tasks, next_id, owners>>

\* "Add Policy": INSERT INTO sla_policies; auto_backup_now()
SlaPolicyAdd ==
  /\ mode = "app" /\ Len(sla_policies) < MaxPolicies
  /\ \E r \in PolicyRows : sla_policies' = Append(sla_policies, r)
  /\ backup_xlsx' = auto_backup_now(tasks, change_log, sla_policies', today, session_state, backup_xlsx)
  /\ UNCHANGED <<pc, row, before, mode, today, due_soon_days, session_state, change_log,
                 date_today, table, tasks, next_id, owners>>

\* "Add Owner": INSERT INTO owners; auto_backup_now()
OwnerAdd ==
  /\ mode = "app" /\ Len(owners) < MaxOwners
  /\ owners' = Append(owners, Str(s_B))
  /\ backup_xlsx' = auto_backup_now(tasks, change_log, sla_policies, today, session_state, backup_xlsx)
  /\ UNCHANGED <<pc, row, before, inputs, table, tasks, next_id>>

\* "Import Excel": the rows of the sheet inserted; auto_backup_now()
Import ==
  /\ mode = "app" /\ next_id <= MaxTaskId
  /\ \E st \in ImportStatuses :
       tasks' = insert_task(tasks, next_id, TableRow(Str(s_B), st, IsoStr(0), None))
  /\ next_id' = next_id + 1
  /\ backup_xlsx' = auto_backup_now(tasks', change_log, sla_policies, today, session_state, backup_xlsx)
  /\ UNCHANGED <<pc, row, before, inputs, table, owners>>

NextApp ==
  \/ AddTask
  \/ EditTask
  \/ DeleteTask
  \/ ChangeLogUpsert
  \/ SlaPolicyAdd
  \/ OwnerAdd
  \/ Import

SpecApp == InitApp /\ [][NextApp]_vars

\* ------------------------------------------------- what the claims speak of
\* The Status Engine has run on `before` and stored its result in row.Status_Final.
EngineRan == pc = "final"
\* The canonical status the engine was given: the upload pipeline stores it in the
\* Status column, the database app canonicalizes the stored text on the fly.
CanonicalStatus == IF mode = "upload" THEN before.Status ELSE db_canon_status(before.Status)
\* The raw status text as entered.
RawStatus == IF mode = "upload" THEN before.Status_Orig ELSE before.Status
ParsedDate(cell) == IF mode = "upload" THEN cell ELSE db_to_date(cell)
DueDate == ParsedDate(before.DueDate)
StartDate == ParsedDate(before.StartDate)
RescheduledTo == ParsedDate(before.RescheduledTo)
FinalStatus == row.Status_Final
StatusPresent == CanonicalStatus # None /\ CanonicalStatus # Str(s_empty)

RuleMatches(i) ==
  CASE i = 1 -> CanonicalStatus = Str(s_Done)
    [] i = 2 -> RescheduledTo # None /\ RescheduledTo.n >= today
    [] i = 3 -> DueDate # None /\ DueDate.n < today
    [] i = 4 -> DueDate # None /\ DueDate.n - today \in 0..due_soon_days
    [] i = 5 -> StatusPresent /\ CanonicalStatus # Str(s_Rescheduled)
    [] i = 6 -> StartDate # None /\ StartDate.n <= today
    [] i = 7 -> TRUE
RuleResult(i) ==
  CASE i = 1 -> Str(s_Done)
    [] i = 2 -> Str(s_Rescheduled)
    [] i = 3 -> Str(s_Overdue)
    [] i = 4 -> Str(s_Due_Soon)
    [] i = 5 -> CanonicalStatus
    [] i = 6 -> Str(s_Under_Progress)
    [] i = 7 -> Str(s_Not_Done)
FirstMatchingRule == CHOOSE i \in 1..7 : RuleMatches(i) /\ \A j \in 1..(i - 1) : ~RuleMatches(j)

\* C1: the final status is the result of the first rule that matches, in the order
\* Done, Rescheduled (target on-or-after today), Overdue, Due Soon, manual status
\* (present and not Rescheduled), Under Progress (started), Not Done.
C1_FirstMatchingRule == EngineRan => FinalStatus = RuleResult(FirstMatchingRule)

\* C1 witness: in the database app a Blocked task is past due, so the Overdue rule
\* and the manual-status rule both match and the earlier one decides.
C1_Witness ==
  /\ EngineRan /\ mode = "db"
  /\ RuleMatches(3) /\ RuleMatches(5) /\ ~RuleMatches(2)
  /\ CanonicalStatus = Str(s_Blocked)
  /\ FinalStatus = Str(s_Overdue)

\* C2: a task whose canonical status is Done has final status Done, whatever its
\* dates are, also after the final status is made categorical.
C2_DoneStaysDone ==
  (pc \in {"final", "categorical"} /\ CanonicalStatus = Str(s_Done)) => FinalStatus = Str(s_Done)

\* C2 witness: a Done task past due with a reschedule target ahead is reported Done.
C2_Witness ==
  /\ EngineRan /\ CanonicalStatus = Str(s_Done)
  /\ DueDate # None /\ DueDate.n < today
  /\ RescheduledTo # None /\ RescheduledTo.n >= today
  /\ FinalStatus = Str(s_Done)

NotDone == CanonicalStatus # Str(s_Done)
NoForwardReschedule == RescheduledTo = None \/ RescheduledTo.n < today

\* C3: a task that is not Done and has no reschedule target on-or-after today is
\* Overdue when its due date is strictly before today, whatever its manual status is.
C3_OverdueDominatesManual ==
  (EngineRan /\ NotDone /\ NoForwardReschedule /\ DueDate # None /\ DueDate.n < today)
    => FinalStatus = Str(s_Overdue)

\* C3 witness: an upload row with an unrecognized status text, past due, is Overdue.
C3_Witness ==
  /\ EngineRan /\ mode = "upload"
  /\ CanonicalStatus = Str(s_Waiting)
  /\ DueDate # None /\ DueDate.n < today
  /\ NoForwardReschedule
  /\ FinalStatus = Str(s_Overdue)

InWindow == DueDate # None /\ 0 <= DueDate.n - today /\ DueDate.n - today <= due_soon_days

\* C4: for a task that is not Done and has no reschedule target on-or-after today,
\* the final status is Due Soon exactly when 0 <= due date - today <= due_soon_days.
C4_DueSoonExactlyInWindow ==
  (EngineRan /\ NotDone /\ NoForwardReschedule) => (FinalStatus = Str(s_Due_Soon) <=> InWindow)

\* C5: the final status is always one of Overdue, Due Soon, Under Progress, Not Done,
\* Rescheduled, Blocked, Done.
C5_ClosedVocabulary ==
  pc \in {"final", "categorical"} =>
    \E i \in 1..Len(STATUS_ORDER) : FinalStatus = Str(STATUS_ORDER[i])

\* The canonical labels as status values.
IsCanonicalLabel(v) == \E w \in CanonicalLabels : v = Str(w)
\* The status text as the run read it, and what the run's canon_status makes of a value.
LoadedStatus == IF pc = "loaded" THEN row.Status ELSE RawStatus
RunCanon(v) == IF mode = "upload" THEN core_canon_status(v) ELSE db_canon_status(v)
\* canon_status returned a value of its declared range: no status, a str, or (database
\* app) the stored value itself.
CanonReturns(v) == RunCanon(v).k \in {"None", "str"} \/ (mode = "db" /\ RunCanon(v) = v)

\* C6: canon_status returns for every input, canonicalizing its result changes
\* nothing, and a canonical label is returned unchanged; the canonical status the
\* upload pipeline stored is the fixed point.
C6_CanonIdempotent ==
  /\ CanonReturns(LoadedStatus)
  /\ RunCanon(RunCanon(LoadedStatus)) = RunCanon(LoadedStatus)
  /\ IsCanonicalLabel(LoadedStatus) => RunCanon(LoadedStatus) = LoadedStatus
  /\ (mode = "upload" /\ pc = "normalized") =>
       /\ row.Status = core_canon_status(before.Status)
       /\ core_canon_status(row.Status) = row.Status

\* C6 witness: the upload pipeline has canonicalized an upper-case synonym to its
\* label, which canonicalizes to itself.
C6_Witness ==
  /\ mode = "upload" /\ pc = "normalized"
  /\ row.Status_Orig = Str(upper(s_on_hold))
  /\ row.Status = Str(s_Blocked)
  /\ core_canon_status(row.Status) = Str(s_Blocked)

\* An empty or missing status: None, NaN, the empty string, whitespace only.
IsBlank(v) == v.k \in {"None", "NaN"} \/ (v.k = "str" /\ strip(v.s) = s_empty)

\* C7: an empty or missing status is canonicalized to "no status" (None), and the
\* Status Engine decides such a task by its dates alone, never by rule 4.
C7_BlankIsNoStatus ==
  /\ (mode = "upload" /\ pc = "normalized" /\ IsBlank(row.Status_Orig)) => row.Status = None
  /\ (EngineRan /\ IsBlank(RawStatus)) =>
       /\ CanonicalStatus = None
       /\ FinalStatus \in {Str(s_Rescheduled), Str(s_Overdue), Str(s_Due_Soon),
                           Str(s_Under_Progress), Str(s_Not_Done)}

\* ------------------------------------------------- Approval Resolver claims
\* The Approval Resolver has run on `before` and produced `row`.
ResolverRan == pc = "approved"
\* The rows of the change log whose status reads "approved".
ApprovedRequests ==
  {change_log[i] : i \in {j \in 1..Len(change_log) :
                            lower(strip(str(change_log[j].Status))) = s_approved}}
HasRequestId ==
  /\ before.Change_Request_ID \notin {None, NaN, Str(s_empty)}
  /\ mode = "upload" => strip(before.Change_Request_ID.s) # s_empty
\* The approved requests the task's change-request id names: the upload pipeline
\* compares the trimmed id, the database app the id as stored.
RequestsOfTask ==
  {r \in ApprovedRequests :
     r.Change_ID = (IF mode = "upload" THEN Str(strip(before.Change_Request_ID.s))
                    ELSE before.Change_Request_ID)}
Matched == HasRequestId /\ RequestsOfTask # {}
\* The due date and the reschedule target the resolver compares, and the due date it leaves.
DueBefore == ParsedDate(before.DueDate)
TargetDate == ParsedDate(before.RescheduledTo)
DueAfter == ParsedDate(row.DueDate)
DueChanged == DueAfter # DueBefore

\* C8 as stated: for a matched task the due date never moves earlier, and it changes
\* only when the reschedule target is present and strictly later than the current
\* due date, and then becomes the target.
C8_ForwardOnlyAsStated ==
  (ResolverRan /\ Matched) =>
    /\ (DueBefore # None /\ DueAfter # None) => DueAfter.n >= DueBefore.n
    /\ DueChanged => /\ TargetDate # None
                     /\ DueBefore # None
                     /\ TargetDate.n > DueBefore.n
                     /\ DueAfter = TargetDate

\* C8 amended: for a matched task the due date never moves earlier; it changes only
\* when the reschedule target is present and the task either has no (parseable) due
\* date or the target is strictly later than it, and then the due date becomes the
\* target; in every other case the due date cell is left as it was.
C8_ForwardOnly ==
  (ResolverRan /\ Matched) =>
    /\ (DueBefore # None /\ DueAfter # None) => DueAfter.n >= DueBefore.n
    /\ IF TargetDate # None /\ (DueBefore = None \/ TargetDate.n > DueBefore.n)
       THEN DueAfter = TargetDate
       ELSE row.DueDate = before.DueDate

\* C8 witness: a matched task whose target is earlier than its due date keeps the
\* due date.
C8_Witness ==
  /\ ResolverRan /\ Matched
  /\ TargetDate # None /\ DueBefore # None /\ TargetDate.n < DueBefore.n
  /\ DueAfter = DueBefore

\* C8 witness of the extension: a matched task whose target is later gets the target.
C8_WitnessExtended ==
  /\ ResolverRan /\ Matched
  /\ TargetDate # None /\ DueBefore # None /\ TargetDate.n > DueBefore.n
  /\ DueAfter = TargetDate

\* The task's own approval-by is empty.
OwnApproverEmpty == before.Approval_By \in {None, NaN, Str(s_empty)}

\* C9: a matched task gets approval status Approved; its approval-by becomes the
\* approver of the approved request when its own approval-by is empty, and is left
\* as it was when not.
C9_ApproverOnlyIfEmpty ==
  (ResolverRan /\ Matched) =>
    /\ row.Approval_Status = Str(s_Approved)
    /\ IF OwnApproverEmpty
       THEN row.Approval_By \in {r.Approved_By : r \in RequestsOfTask}
       ELSE row.Approval_By = before.Approval_By

\* C9 witness: a matched task with its own approver keeps it and is Approved.
C9_Witness ==
  /\ ResolverRan /\ Matched
  /\ before.Approval_By = Str(s_B)
  /\ \E r \in RequestsOfTask : r.Approved_By = Str(s_A)
  /\ row.Approval_By = Str(s_B)
  /\ row.Approval_Status = Str(s_Approved)

\* C9 witness of the fill: a matched task without approver gets the request's.
C9_WitnessFilled ==
  /\ ResolverRan /\ Matched /\ OwnApproverEmpty
  /\ row.Approval_By = Str(s_A)

\* C10: a task with no change-request id, or whose id names no approved request,
\* leaves the Approval Resolver with every field as it entered.
C10_UnmatchedUntouched == (ResolverRan /\ ~Matched) => row = before

\* C10 witness: a task with a pending approval status names a request that is in
\* the change log but not approved, and keeps its approval status.
C10_Witness ==
  /\ ResolverRan /\ ~Matched
  /\ before.Approval_Status = Str(s_Pending)
  /\ \E i \in 1..Len(change_log) :
       /\ change_log[i].Change_ID = before.Change_Request_ID
       /\ change_log[i].Status = Str(s_Rejected)
  /\ row.Approval_Status = Str(s_Pending)

\* ------------------------------------------------------------ SLA Resolver
\* The SLA Resolver has run on `before` and stored target-days, due date and breach in row.
SlaRan == pc = "sla"
\* The SLA due date the resolver produced, as a date; None when there is none.
SlaDueDate == ParsedDate(row.SLA_DueDate)
CompletedOn == ParsedDate(before.CompletedOn)
CreatedOn == ParsedDate(before.CreatedOn)
\* The breach verdict the specification prescribes for the date `day`.
BreachAt(day) ==
  /\ SlaDueDate # None
  /\ \/ CompletedOn # None /\ CompletedOn.n > SlaDueDate.n
     \/ CompletedOn = None /\ day > SlaDueDate.n /\ CanonicalStatus # Str(s_Done)

\* C11: the SLA breach flag is true exactly when an SLA due date exists and either
\* the task was completed strictly after it, or the task is not completed, today is
\* strictly after it and the canonical status is not Done; it is false otherwise.
C11_BreachExactly == SlaRan => (row.SLA_Breach = BreachAt(today))

\* The breach verdict of this run's input had the wall clock shown the date `clock`.
VerdictUnderClock(clock) ==
  IF mode = "upload" THEN compute_sla_breach(row, clock) ELSE sla_breach(row, today)

\* C12: one "today" serves every stage of a run: the SLA breach verdict of a task
\* depends on the input and on today only, so it is the same whatever date the wall
\* clock shows.
C12_SingleToday == SlaRan => \A clock \in Todays : VerdictUnderClock(clock) = row.SLA_Breach

\* ------------------------------------------------------- engine purity
\* The engine's result on this run's row, today and due_soon_days argument had the
\* session held the window `w`.
EngineUnderSession(w) ==
  IF mode = "upload"
  THEN core_compute_status_row(before, today, due_soon_days)
  ELSE db_compute_status_row(before, today, due_soon_days, {<<"due_soon_days", w>>})

\* C13: the Status Engine is a function of the row, today and the due_soon_days
\* argument alone: whatever the session holds, the same three inputs give the
\* final status of this run.
C13_PureInArguments == EngineRan => \A w \in Windows : EngineUnderSession(w) = FinalStatus

\* ------------------------------------------------------- SLA due date
\* The target-days the due date is computed from: the task's own or the policy's.
TargetDaysUsed == row.SLA_TargetDays
TargetPresent == ~isna(TargetDaysUsed) /\ TargetDaysUsed # Str(s_empty)
TargetParses == py_int(TargetDaysUsed).ok
SlaDueDefined == CreatedOn # None /\ TargetPresent /\ TargetParses

\* C14: the SLA due date is created-on plus target-days when created-on is present
\* and target-days is present and parses as an integer; otherwise there is no SLA
\* due date and the breach flag is false.
C14_SlaDueOrUndefined ==
  SlaRan =>
    IF SlaDueDefined
    THEN SlaDueDate = Date(CreatedOn.n + py_int(TargetDaysUsed).n)
    ELSE SlaDueDate = None /\ row.SLA_Breach = FALSE

\* Created-on is present but target-days is text that is no integer: no SLA due date.
C14_Witness ==
  /\ SlaRan
  /\ CreatedOn # None
  /\ TargetDaysUsed = Str(s_tbd)
  /\ SlaDueDate = None
  /\ row.SLA_Breach = FALSE

\* ------------------------------------------------------- target-days fill
OwnTargetDays == before.SLA_TargetDays
\* The task's own target-days is missing, empty or zero.
OwnMissing == isna(OwnTargetDays) \/ OwnTargetDays = Str(s_empty) \/ OwnTargetDays = Num(0)
\* The text of a category or priority cell, trimmed; a missing cell has no text.
Trimmed(cell) == IF cell.k = "str" THEN strip(cell.s) ELSE s_empty
\* The policies keyed by the task's (trimmed category, trimmed priority).
PoliciesOfTask ==
  {sla_policies[i] : i \in {j \in 1..Len(sla_policies) :
      /\ Trimmed(sla_policies[j].Category) = Trimmed(before.Category)
      /\ Trimmed(sla_policies[j].Priority) = Trimmed(before.Priority)}}

\* C15: a task whose own target-days is missing, empty or zero gets the target-days
\* of the policy keyed by its trimmed category and priority when there is one, and
\* keeps its value otherwise; a non-zero own target-days is never overwritten.
C15_FillFromPolicy ==
  SlaRan =>
    IF OwnMissing /\ PoliciesOfTask # {}
    THEN row.SLA_TargetDays \in {p.TargetDays : p \in PoliciesOfTask}
    ELSE row.SLA_TargetDays = OwnTargetDays

\* A zero target-days of a task whose category is stored padded was filled from the policy.
C15_Witness ==
  /\ SlaRan
  /\ OwnTargetDays = Num(0)
  /\ before.Category = Str(padded(s_IT))
  /\ PoliciesOfTask # {}
  /\ row.SLA_TargetDays \in {p.TargetDays : p \in PoliciesOfTask}
  /\ row.SLA_TargetDays # OwnTargetDays

\* ------------------------------------------------------- date-driven flags
\* Is_Overdue, Is_DueSoon and Is_Done have been derived from the final status.
FlagsSet == (mode = "upload" /\ pc = "categorical") \/ (mode = "db" /\ pc = "final")
\* The task's due date as the engine saw it.
TaskDue == ParsedDate(row.DueDate)

\* C18: a task flagged Overdue has a due date strictly before today, a task flagged
\* Due Soon has a due date d with 0 <= d - today <= due_soon_days, and a task
\* without due date carries neither flag.
C18_FlagsBackedByDates ==
  FlagsSet =>
    /\ row.Is_Overdue => (TaskDue # None /\ TaskDue.n < today)
    /\ row.Is_DueSoon =>
         (TaskDue # None /\ 0 <= TaskDue.n - today /\ TaskDue.n - today <= due_soon_days)

\* ------------------------------------------ the two implementations compared
\* The task of this run as an uploaded sheet presents it to followup_core ...
AsUploaded ==
  [before EXCEPT !.Status = core_canon_status(IF RawStatus = None THEN NaN ELSE RawStatus),
                 !.StartDate = StartDate, !.DueDate = DueDate, !.RescheduledTo = RescheduledTo]
\* ... and as the tasks table presents it to app_db: NULL for a missing cell, ISO text for a date.
IsoOf(d) == IF d = None THEN None ELSE IsoStr(d.n)
AsStored ==
  [before EXCEPT !.Status = IF RawStatus = NaN THEN None ELSE RawStatus,
                 !.StartDate = IsoOf(StartDate), !.DueDate = IsoOf(DueDate),
                 !.RescheduledTo = IsoOf(RescheduledTo)]
CoreCanonical == AsUploaded.Status
DbCanonical == db_canon_status(AsStored.Status)
CoreFinal == core_compute_status_row(AsUploaded, today, due_soon_days)
DbFinal == db_compute_status_row(AsStored, today, due_soon_days, {<<"due_soon_days", due_soon_days>>})
\* The raw status is missing or a text.
RawIsTextOrMissing == RawStatus.k \in {"None", "NaN", "str"}

\* C19: for every raw status that is missing or a text, and every dates, today and
\* window, followup_core and app_db (its session window equal to the window passed)
\* return the same canonical status and the same final status.
C19_ImplementationsAgree ==
  (EngineRan /\ RawIsTextOrMissing) => (CoreCanonical = DbCanonical /\ CoreFinal = DbFinal)

\* ------------------------------------------------------------ Aggregator
\* The by-final-status pivot of the run's table has been built.
Pivoted == pc = "pivoted"
RECURSIVE SumCounts(_)
SumCounts(pivot) == IF pivot = <<>> THEN 0 ELSE Head(pivot).Count + SumCounts(Tail(pivot))

\* C16: the counts of the by-final-status pivot add up to the number of task rows:
\* every task is counted in exactly one status bucket.
C16_PivotComplete == Pivoted => SumCounts(status_pivot) = Len(df)

\* The place of a status in the fixed vocabulary order; 0 for a text outside it.
VocabularyIndex(status) ==
  IF \E i \in 1..Len(STATUS_ORDER) : Str(STATUS_ORDER[i]) = status
  THEN CHOOSE i \in 1..Len(STATUS_ORDER) : Str(STATUS_ORDER[i]) = status
  ELSE 0
\* The pivot row stands for a status of the vocabulary that some task has.
PresentRow(i) == status_pivot[i].Count > 0 /\ VocabularyIndex(status_pivot[i].Status_Final) > 0

\* C17: the rows of the by-final-status pivot that stand for statuses present follow
\* the vocabulary order Overdue, Due Soon, Under Progress, Not Done, Rescheduled,
\* Blocked, Done, in the upload path and in the database app's export alike.
C17_VocabularyOrder ==
  Pivoted =>
    \A i, j \in 1..Len(status_pivot) :
      (i < j /\ PresentRow(i) /\ PresentRow(j)) =>
        VocabularyIndex(status_pivot[i].Status_Final) < VocabularyIndex(status_pivot[j].Status_Final)

\* ------------------------------------------------------------ auto-backup
\* The ids of the tasks FollowUp_AutoBackup.xlsx lists, and of the tasks in the table.
ListedIds == {r.id : r \in backup_xlsx.rows}
TaskIds == {t.id : t \in tasks}

\* C20: after every committed mutation and its auto_backup_now, the Excel snapshot
\* lists exactly the tasks of the tasks table: never a task that has been deleted,
\* also after the last remaining task is deleted.
C20_SnapshotCurrent == ListedIds = TaskIds

====
